---- MODULE Spec2Model ----
(***************************************************************************)
(* Model of the robot command language of src/src/utils/gameLogic.ts:      *)
(* level parsing, the definition parser, the expression evaluator, the     *)
(* macro expander and the step-wise simulation engine                      *)
(* (executeCommandsStepByStep), a generator advanced one next() at a time. *)
(*                                                                         *)
(* Texts (level text, program text, instruction strings, grid rows) are    *)
(* TLA+ strings; a JavaScript array is a sequence, and index i of the      *)
(* source is index i+1 here.                                               *)
(***************************************************************************)
EXTENDS Integers, Sequences, FiniteSets, TLC

\* ------------------------------------------------------------------ bounds

\* The recursion-depth limit handed to expandInstructions. The program passes
\* 1000 (gameLogic.ts:365); the model runs the same code with a small limit.
MaxDepth == 3

\* The largest small step cap tried as maxSteps (besides the default).
MaxStepCap == 3

\* ------------------------------------------------------- program constants

GRID_SIZE == 25

DefaultMaxSteps == 10000

\* --------------------------------------------------------------- strings

\* s[i] of the source; outside the string (undefined in the source, equal to
\* no character) it is the empty text.
CharAt(s, i) == IF 0 <= i /\ i < Len(s) THEN SubSeq(s, i + 1, i + 1) ELSE ""

\* s.substring(a, b) for 0 <= a, b (JavaScript swaps the bounds if a > b and
\* clamps them to the length).
Substring(s, a, b) ==
    LET lo == IF a <= b THEN a ELSE b
        hi == IF a <= b THEN b ELSE a
        l2 == IF lo > Len(s) THEN Len(s) ELSE lo
        h2 == IF hi > Len(s) THEN Len(s) ELSE hi
    IN  SubSeq(s, l2 + 1, h2)

Lower == {"a", "b", "c", "d", "e", "f", "g", "h", "i", "j", "k", "l", "m",
          "n", "o", "p", "q", "r", "s", "t", "u", "v", "w", "x", "y", "z"}

Upper == {"A", "B", "C", "D", "E", "F", "G", "H", "I", "J", "K", "L", "M",
          "N", "O", "P", "Q", "R", "S", "T", "U", "V", "W", "X", "Y", "Z"}

Digit == {"0", "1", "2", "3", "4", "5", "6", "7", "8", "9"}

\* \s of a regular expression and the characters trim() removes, among the
\* characters the texts of the model use.
Space == {" ", "\t", "\n"}

RECURSIVE IndexOfFrom(_, _, _)
\* The least index >= i (0-based) at which s holds the character c, or -1.
IndexOfFrom(s, c, i) ==
    IF i >= Len(s) THEN -1
    ELSE IF CharAt(s, i) = c THEN i
    ELSE IndexOfFrom(s, c, i + 1)

\* s.includes(c)
Includes(s, c) == IndexOfFrom(s, c, 0) >= 0

\* s.split(c) for a one-character separator: "" gives <<"">>. Part j runs
\* from behind separator j - 1 to separator j.
Split(s, c) ==
    LET seps    == {k \in 0..(Len(s) - 1) : CharAt(s, k) = c}
        n       == Cardinality(seps)
        sep(j)  == CHOOSE p \in seps : Cardinality({q \in seps : q < p}) = j - 1
    IN  [j \in 1..(n + 1) |->
            SubSeq(s, IF j = 1 THEN 1 ELSE sep(j - 1) + 2,
                      IF j = n + 1 THEN Len(s) ELSE sep(j))]

RECURSIVE TrimStart(_)
TrimStart(s) ==
    IF Len(s) > 0 /\ CharAt(s, 0) \in Space THEN TrimStart(Tail(s)) ELSE s

RECURSIVE TrimEnd(_)
TrimEnd(s) ==
    IF Len(s) > 0 /\ CharAt(s, Len(s) - 1) \in Space
    THEN TrimEnd(Substring(s, 0, Len(s) - 1)) ELSE s

\* s.trim()
Trim(s) == TrimEnd(TrimStart(s))

RECURSIVE Join(_)
\* lines.join('')
Join(lines) == IF lines = <<>> THEN "" ELSE Head(lines) \o Join(Tail(lines))

RECURSIVE Repeat(_, _)
\* n copies of the text s, by halves.
Repeat(s, n) ==
    IF n <= 0 THEN ""
    ELSE LET half == Repeat(s, n \div 2)
         IN  IF n % 2 = 0 THEN half \o half ELSE half \o half \o s

\* ------------------------------------------------------------ the level

RECURSIVE ParseRow(_, _, _)
\* The cells the inner loop of parseLevel pushes for columns lo..hi-1 of a
\* line, by halves: the robot's cell is stored as an empty cell, every
\* other character as it is.
ParseRow(line, lo, hi) ==
    IF hi <= lo THEN ""
    ELSE IF hi = lo + 1
    THEN (IF CharAt(line, lo) = "u" THEN "." ELSE CharAt(line, lo))
    ELSE ParseRow(line, lo, (lo + hi) \div 2) \o ParseRow(line, (lo + hi) \div 2, hi)

\* lines.forEach of parseLevel: one row a line, and the robot start the
\* loops assign last, that of the last 'u' in reading order ({0, 0} if none).
ParseLines(lines) ==
    LET marks == UNION {{[x |-> x, y |-> y] :
                            x \in {k \in 0..(Len(lines[y + 1]) - 1) :
                                       CharAt(lines[y + 1], k) = "u"}} :
                        y \in 0..(Len(lines) - 1)}
    IN  [grid       |-> [y \in 1..Len(lines) |-> ParseRow(lines[y], 0, Len(lines[y]))],
         robotStart |-> IF marks = {} THEN [x |-> 0, y |-> 0]
                        ELSE CHOOSE m \in marks :
                                 \A o \in marks :
                                     o.y < m.y \/ (o.y = m.y /\ o.x <= m.x)]

\* The normalisation of a row without the cut of a longer one.
NormalizeRowPadOnly(row) ==
    IF Len(row) < GRID_SIZE THEN row \o Repeat(".", GRID_SIZE - Len(row)) ELSE row

\* A row padded with empty cells to GRID_SIZE columns, or cut to them.
NormalizeRow(row) ==
    IF Len(row) < GRID_SIZE THEN row \o Repeat(".", GRID_SIZE - Len(row))
    ELSE Substring(row, 0, GRID_SIZE)

\* The row list padded with empty rows to GRID_SIZE rows, or cut to them.
NormalizeRows(grid) ==
    [y \in 1..GRID_SIZE |-> IF y <= Len(grid) THEN grid[y] ELSE Repeat(".", GRID_SIZE)]

parseLevel(levelData) ==
    LET lines  == Split(Trim(levelData), "\n")
        parsed == ParseLines(lines)
        padded == [y \in 1..Len(parsed.grid) |-> NormalizeRow(parsed.grid[y])]
    IN  [grid |-> NormalizeRows(padded), robotStart |-> parsed.robotStart]

\* The columns (0-based) of a row that hold the character c.
CountInRow(row, c) == {k \in 0..(Len(row) - 1) : CharAt(row, k) = c}

\* The number of cells of a grid that hold the character c.
CountRows(grid, c) ==
    Cardinality(UNION {{y} \X CountInRow(grid[y], c) : y \in 1..Len(grid)})

\* countTotalPoints counting the bombs as well.
countTotalPointsAndBombs(grid) == CountRows(grid, "o") + CountRows(grid, "*")

countTotalPoints(grid) == CountRows(grid, "o")

initializeGame(levelData) ==
    LET lv == parseLevel(levelData)
        initialRobot == [position |-> lv.robotStart, direction |-> "up"]
    IN  [grid            |-> lv.grid,
         robot           |-> initialRobot,
         initialRobot    |-> initialRobot,
         pointsCollected |-> 0,
         totalPoints     |-> countTotalPoints(lv.grid),
         isGameOver      |-> FALSE,
         isWon           |-> FALSE,
         message         |-> ""]

\* ----------------------------------------------------------- the robot

directions == <<"up", "right", "down", "left">>

\* directions.indexOf(direction)
DirIndex(direction) == (CHOOSE k \in 1..4 : directions[k] = direction) - 1

\* turnLeft going two steps back in the cycle.
turnLeftTwoSteps(direction) == directions[((DirIndex(direction) + 2) % 4) + 1]

turnLeft(direction) == directions[((DirIndex(direction) + 3) % 4) + 1]

turnRight(direction) == directions[((DirIndex(direction) + 1) % 4) + 1]

getNextPosition(pos, direction) ==
    CASE direction = "up"    -> [x |-> pos.x, y |-> pos.y - 1]
      [] direction = "down"  -> [x |-> pos.x, y |-> pos.y + 1]
      [] direction = "left"  -> [x |-> pos.x - 1, y |-> pos.y]
      [] direction = "right" -> [x |-> pos.x + 1, y |-> pos.y]


\* isValidPosition without its test of the left edge.
isValidPositionNoLeftEdge(pos, grid) ==
    pos.y >= 0 /\ pos.y < Len(grid) /\ pos.x < Len(grid[1])

isValidPosition(pos, grid) ==
    pos.y >= 0 /\ pos.y < Len(grid) /\ pos.x >= 0 /\ pos.x < Len(grid[1])

\* grid[y][x]
CellAt(grid, pos) == CharAt(grid[pos.y + 1], pos.x)

\* grid[y][x] = c
SetCell(grid, pos, c) ==
    [grid EXCEPT ![pos.y + 1] =
        Substring(@, 0, pos.x) \o c \o Substring(@, pos.x + 1, Len(@))]

WallKinds == {"A", "B", "C", "D", "E", "F", "G", "H", "I", "J", "K"}


\* isWall with the pattern /^[B-K]$/.
isWallFromB(cellType) == cellType \in (WallKinds \ {"A"})

isWall(cellType) == cellType \in WallKinds

MsgHitWall == "Robot hit the wall!"

MsgHitBomb == "Robot hit a bomb!"

MsgWon == "You collected all points! You won!"

MsgMaxSteps == "Maximum steps reached. Check for infinite loops."

\* The bomb branch with the robot left where it was.
HitBombInPlace(state, nextPos) ==
    [state EXCEPT !.isGameOver = TRUE, !.message = MsgHitBomb]

\* if (cellType === '*') { ... }
HitBomb(state, nextPos) ==
    [state EXCEPT !.robot.position = nextPos, !.isGameOver = TRUE,
                  !.message = MsgHitBomb]

\* The point branch without the assignment that empties the cell.
CollectPointKeepsCell(state, nextPos) ==
    [state EXCEPT !.pointsCollected = @ + 1]

\* The point branch counting the point twice.
CollectPointTwice(state, nextPos) ==
    [state EXCEPT !.grid = SetCell(state.grid, nextPos, "."),
                  !.pointsCollected = @ + 2]

\* state.grid[nextPos.y][nextPos.x] = '.'; state.pointsCollected++
CollectPoint(state, nextPos) ==
    [state EXCEPT !.grid = SetCell(state.grid, nextPos, "."),
                  !.pointsCollected = @ + 1]

\* The win test passing on the first point collected.
AllCollectedAtFirst(state) == state.pointsCollected >= 1

\* state.pointsCollected === state.totalPoints
AllCollected(state) == state.pointsCollected = state.totalPoints

\* The `s` branch of executeOneCommand.
StepForward(state) ==
    LET nextPos  == getNextPosition(state.robot.position, state.robot.direction)
        cellType == CellAt(state.grid, nextPos)
        moved(st) == [st EXCEPT !.robot.position = nextPos]
        collected == CollectPoint(state, nextPos)
    IN  IF ~isValidPosition(nextPos, state.grid)
        THEN [state EXCEPT !.isGameOver = TRUE, !.message = MsgHitWall]
        ELSE IF isWall(cellType) THEN state
        ELSE IF cellType = "*" THEN HitBomb(state, nextPos)
        ELSE IF cellType = "o"
        THEN IF AllCollected(collected)
             THEN [moved(collected) EXCEPT !.isWon = TRUE, !.isGameOver = TRUE,
                                           !.message = MsgWon]
             ELSE moved(collected)
        ELSE moved(state)

\* The state executeOneCommand leaves in the object it is given.
executeOneCommand(command, state) ==
    IF state.isGameOver THEN state
    ELSE IF command = "l"
    THEN [state EXCEPT !.robot.direction = turnLeft(state.robot.direction)]
    ELSE IF command = "r"
    THEN [state EXCEPT !.robot.direction = turnRight(state.robot.direction)]
    ELSE IF command = "s" THEN StepForward(state)
    ELSE state

\* ------------------------------------------------- the definition parser

\* Every character of s is in the set cs.
AllIn(s, cs) == \A i \in 0..(Len(s) - 1) : CharAt(s, i) \in cs

RECURSIVE SkipWhile(_, _, _)
\* The least index >= i (0-based) whose character is not in cs, or Len(s).
SkipWhile(s, i, cs) ==
    IF i < Len(s) /\ CharAt(s, i) \in cs THEN SkipWhile(s, i + 1, cs) ELSE i

\* trimmedLine.match(/^([a-z])\(([A-Z,]+)\):(.+)$/): the match or none.
MatchWithArgs(line) ==
    LET k == SkipWhile(line, 2, Upper \cup {","})
    IN  IF /\ Len(line) >= 2
           /\ CharAt(line, 0) \in Lower
           /\ CharAt(line, 1) = "("
           /\ k > 2
           /\ CharAt(line, k) = ")"
           /\ CharAt(line, k + 1) = ":"
           /\ Len(line) > k + 2
        THEN [matched  |-> TRUE,
              funcName |-> CharAt(line, 0),
              paramStr |-> Substring(line, 2, k),
              body     |-> Substring(line, k + 2, Len(line))]
        ELSE [matched |-> FALSE, funcName |-> "", paramStr |-> "", body |-> ""]

\* trimmedLine.match(/^([a-z]):(.+)$/): the match or none.
MatchNoArgs(line) ==
    IF Len(line) >= 3 /\ CharAt(line, 0) \in Lower /\ CharAt(line, 1) = ":"
    THEN [matched |-> TRUE, funcName |-> CharAt(line, 0),
          body |-> Substring(line, 2, Len(line))]
    ELSE [matched |-> FALSE, funcName |-> "", body |-> ""]

\* functions.set(name, def)
MapSet(map, key, value) ==
    [k \in (DOMAIN map) \cup {key} |-> IF k = key THEN value ELSE map[k]]

EmptyMap == [k \in {} |-> 0]

TrimAll(parts) == [k \in 1..Len(parts) |-> Trim(parts[k])]

RECURSIVE ParseDefinitionLines(_, _)
\* The loop of parseFunctionsAdvanced over the lines still to read.
ParseDefinitionLines(lines, functions) ==
    IF lines = <<>> THEN functions
    ELSE LET trimmedLine == Trim(Head(lines))
             withArgs    == MatchWithArgs(trimmedLine)
             noArgs      == MatchNoArgs(trimmedLine)
         IN  IF trimmedLine = "" THEN ParseDefinitionLines(Tail(lines), functions)
             ELSE IF withArgs.matched
             THEN ParseDefinitionLines(Tail(lines),
                      MapSet(functions, withArgs.funcName,
                             [name   |-> withArgs.funcName,
                              params |-> TrimAll(Split(withArgs.paramStr, ",")),
                              body   |-> withArgs.body]))
             ELSE IF noArgs.matched
             THEN ParseDefinitionLines(Tail(lines),
                      MapSet(functions, noArgs.funcName,
                             [name |-> noArgs.funcName, params |-> <<>>,
                              body |-> noArgs.body]))
             ELSE ParseDefinitionLines(Tail(lines), functions)

parseFunctionsAdvanced(commandString) ==
    ParseDefinitionLines(Split(commandString, "\n"), EmptyMap)

\* trimmed.match(/^([a-z])\s*(\([A-Z,\s]*\))?\s*:/) of executeCommandsStepByStep:
\* the test that drops a line from the main program.
IsDefinitionLine(trimmed) ==
    LET a == SkipWhile(trimmed, 1, Space)
        b == SkipWhile(trimmed, a + 1, Upper \cup {","} \cup Space)
        c == SkipWhile(trimmed, b + 1, Space)
    IN  /\ Len(trimmed) >= 1
        /\ CharAt(trimmed, 0) \in Lower
        /\ \/ CharAt(trimmed, a) = ":"
           \/ /\ CharAt(trimmed, a) = "("
              /\ CharAt(trimmed, b) = ")"
              /\ CharAt(trimmed, c) = ":"

RECURSIVE ExecutionLines(_)
\* lines.filter(...) of executeCommandsStepByStep.
ExecutionLines(lines) ==
    IF lines = <<>> THEN <<>>
    ELSE IF IsDefinitionLine(Trim(Head(lines))) THEN ExecutionLines(Tail(lines))
    ELSE <<Head(lines)>> \o ExecutionLines(Tail(lines))

MainCommands(commandString) == Join(ExecutionLines(Split(commandString, "\n")))

\* ---------------------------------------------- the expression evaluator

DigitVal(c) == CHOOSE d \in 0..9 : CharAt("0123456789", d) = c

RECURSIVE DigitsValue(_, _)
\* The value of a string of decimal digits read after the value acc.
DigitsValue(ds, acc) ==
    IF ds = "" THEN acc ELSE DigitsValue(Tail(ds), 10 * acc + DigitVal(Head(ds)))

\* parseInt(expr): leading white space, an optional sign, then the longest
\* run of decimal digits; NaN when there is no digit.
ParseInt(expr) ==
    LET s      == TrimStart(expr)
        signed == Len(s) > 0 /\ CharAt(s, 0) \in {"+", "-"}
        from   == IF signed THEN 1 ELSE 0
        to     == SkipWhile(s, from, Digit)
        mag    == DigitsValue(Substring(s, from, to), 0)
    IN  IF to = from THEN [isNaN |-> TRUE, value |-> 0]
        ELSE [isNaN |-> FALSE,
              value |-> IF signed /\ CharAt(s, 0) = "-" THEN 0 - mag ELSE mag]

NumValue(n) == [kind |-> "number", num |-> n, str |-> ""]

StrValue(s) == [kind |-> "string", num |-> 0, str |-> s]

RECURSIVE evaluateExpression(_, _)
RECURSIVE SumParts(_, _)
\* parts.reduce((sum, part) => sum + evaluateExpression(part, context), 0)
SumParts(parts, context) ==
    IF parts = <<>> THEN 0
    ELSE evaluateExpression(Head(parts), context) + SumParts(Tail(parts), context)

evaluateExpression(rawExpr, context) ==
    LET expr == Trim(rawExpr)
        num  == ParseInt(expr)
    IN  IF ~num.isNaN THEN num.value
        ELSE IF Len(expr) = 1 /\ expr \in Upper
        THEN IF expr \in DOMAIN context.argValues
                /\ context.argValues[expr].kind = "number"
             THEN context.argValues[expr].num ELSE 0
        ELSE IF Includes(expr, "+")
        THEN SumParts(TrimAll(Split(expr, "+")), context)
        ELSE IF Includes(expr, "-")
        THEN LET parts == TrimAll(Split(expr, "-"))
             IN  IF Len(parts) = 2
                 THEN evaluateExpression(parts[1], context)
                      - evaluateExpression(parts[2], context)
                 ELSE 0
        ELSE 0

\* ------------------------------------------------------ the macro expander

\* The number of nested JavaScript calls after which the engine throws its
\* RangeError. Real engines allow thousands of frames, far more than the
\* depth limit lets a depth-counted recursion use (two frames a level:
\* expandFunctionCall and the expandInstructions of the body), so the
\* model's limit is set above the frames MaxDepth + 1 levels can take.
StackLimit == 2 * (MaxDepth + 2) + 1

MsgDepth == "Maximum recursion depth exceeded."

MsgStack == "Maximum call stack size exceeded"

\* The result of an expansion: the error thrown ("none", "depth", "stack");
\* the string returned when none was, and otherwise the primitives that had
\* been appended to a result when the error was thrown, in order; the calls
\* of expandFunctionCall made on the way, in order, each with its depth and
\* whether it threw; and the entries the Map object context.argValues of the
\* caller holds afterwards.
Returned(out, calls, argValues) ==
    [err |-> "none", out |-> out, calls |-> calls, argValues |-> argValues]

Thrown(err, out, calls, argValues) ==
    [err |-> err, out |-> out, calls |-> calls, argValues |-> argValues]


\* The guard with < in place of <=.
GuardBlocksNegativeOnly(numValue) == numValue < 0

\* if (numValue <= 0) shouldExecute = false
GuardBlocks(numValue) == numValue <= 0


\* The depth test with >= in place of >.
DepthExceededAtLimit(depth, maxDepth) == depth >= maxDepth

\* if (depth > maxDepth) throw ...
DepthExceeded(depth, maxDepth) == depth > maxDepth

\* argValue.match(/^[0-9A-Z+\-]+$/)
IsNumericArgument(argValue) ==
    Len(argValue) > 0 /\ AllIn(argValue, Digit \cup Upper \cup {"+", "-"})


\* new Map() in place of new Map(context.argValues).
EmptyArgValues(argValues) == [isCallers |-> FALSE, entries |-> EmptyMap]

\* context.argValues itself in place of a copy of it.
CallersArgValues(argValues) == [isCallers |-> TRUE, entries |-> argValues]

\* argValues: new Map(context.argValues): a Map object of its own (not the
\* caller's) that starts with the caller's entries.
NewArgValues(argValues) == [isCallers |-> FALSE, entries |-> argValues]

RECURSIVE BindArguments(_, _, _, _, _)
\* The binding loop of expandFunctionCall from parameter i on: the entries of
\* newContext.argValues and shouldExecute. `acc.isCallers` tells whether
\* newContext.argValues is the object context.argValues, whose entries the
\* loop's evaluateExpression(argValue, context) then reads.
BindArguments(params, args, context, i, acc) ==
    IF ~(i < Len(params) /\ i < Len(args)) THEN acc
    ELSE LET paramName == params[i + 1]
             argValue  == args[i + 1]
             seen      == IF acc.isCallers THEN acc.argValues ELSE context.argValues
             numValue  == evaluateExpression(argValue, [context EXCEPT !.argValues = seen])
         IN  IF IsNumericArgument(argValue)
             THEN BindArguments(params, args, context, i + 1,
                      [acc EXCEPT
                          !.argValues     = MapSet(@, paramName, NumValue(numValue)),
                          !.shouldExecute = @ /\ ~GuardBlocks(numValue)])
             ELSE BindArguments(params, args, context, i + 1,
                      [acc EXCEPT
                          !.argValues = MapSet(@, paramName, StrValue(argValue))])

RECURSIVE MatchingParen(_, _, _)
\* The inner while loop of expandInstructions: the index after the matching
\* closing parenthesis, or the length when there is none.
MatchingParen(instructions, j, parenCount) ==
    IF ~(j < Len(instructions) /\ parenCount > 0) THEN j
    ELSE MatchingParen(instructions, j + 1,
             IF CharAt(instructions, j) = "(" THEN parenCount + 1
             ELSE IF CharAt(instructions, j) = ")" THEN parenCount - 1
             ELSE parenCount)

RECURSIVE expandFunctionCall(_, _, _, _, _, _)
RECURSIVE expandInstructions(_, _, _, _, _)
RECURSIVE ExpandLoop(_, _, _, _, _, _, _, _)

\* `stack` counts the JavaScript frames in use; the other parameters are the
\* source's.
expandFunctionCall(funcName, argsStr, context, depth, maxDepth, stack) ==
    LET thisCall(threw) == [name |-> funcName, depth |-> depth, threw |-> threw]
        funcDef    == context.functions[funcName]
        args       == IF argsStr # "" THEN TrimAll(Split(argsStr, ",")) ELSE <<>>
        newMap     == NewArgValues(context.argValues)
        bound      == BindArguments(funcDef.params, args, context, 0,
                          [argValues     |-> newMap.entries,
                           shouldExecute |-> TRUE,
                           isCallers     |-> newMap.isCallers])
        newContext == [functions |-> context.functions, argValues |-> bound.argValues]
        \* what context.argValues holds once newContext.argValues holds `entries`
        callers(entries) == IF newMap.isCallers THEN entries ELSE context.argValues
    IN  IF stack > StackLimit THEN Thrown("stack", "", <<>>, context.argValues)
        ELSE IF DepthExceeded(depth, maxDepth)
        THEN Thrown("depth", "", <<thisCall(TRUE)>>, context.argValues)
        ELSE IF funcName \notin DOMAIN context.functions
        THEN Returned("", <<thisCall(FALSE)>>, context.argValues)
        ELSE IF ~bound.shouldExecute
        THEN Returned("", <<thisCall(FALSE)>>, callers(bound.argValues))
        ELSE LET r == expandInstructions(funcDef.body, newContext, depth + 1,
                                         maxDepth, stack + 1)
             IN  [r EXCEPT !.calls = <<thisCall(FALSE)>> \o @,
                           !.argValues = callers(@)]

\* The while loop of expandInstructions from index i on, with the result
\* and the calls so far; context.argValues is what the Map object holds now.
ExpandLoop(instructions, i, result, calls, context, depth, maxDepth, stack) ==
    LET char == CharAt(instructions, i)
        next(k, r) ==
            IF r.err # "none"
            THEN Thrown(r.err, result \o r.out, calls \o r.calls, r.argValues)
            ELSE ExpandLoop(instructions, k, result \o r.out, calls \o r.calls,
                            [context EXCEPT !.argValues = r.argValues],
                            depth, maxDepth, stack)
        skip == ExpandLoop(instructions, i + 1, result, calls,
                           context, depth, maxDepth, stack)
        j == MatchingParen(instructions, i + 2, 1)
    IN  IF ~(i < Len(instructions)) THEN Returned(result, calls, context.argValues)
        ELSE IF char \in {"s", "l", "r"}
        THEN next(i + 1, Returned(char, <<>>, context.argValues))
        ELSE IF char \in Upper
        THEN IF char \in DOMAIN context.argValues
                /\ context.argValues[char].kind = "string"
             THEN next(i + 1, expandInstructions(context.argValues[char].str, context,
                                                 depth, maxDepth, stack + 1))
             ELSE skip
        ELSE IF char \in Lower
        THEN IF i + 1 < Len(instructions) /\ CharAt(instructions, i + 1) = "("
             THEN next(j, expandFunctionCall(char, Substring(instructions, i + 2, j - 1),
                                             context, depth, maxDepth, stack + 1))
             ELSE next(i + 1, expandFunctionCall(char, "", context, depth, maxDepth,
                                                 stack + 1))
        ELSE skip

expandInstructions(instructions, context, depth, maxDepth, stack) ==
    IF stack > StackLimit THEN Thrown("stack", "", <<>>, context.argValues)
    ELSE ExpandLoop(instructions, 0, "", <<>>, context, depth, maxDepth, stack)

\* The try block of executeCommandsStepByStep up to the expanded commands:
\* expandInstructions(mainCommands, context, 0, 1000), with the model's limit.
ExpandProgram(commandString) ==
    expandInstructions(MainCommands(commandString),
                       [functions |-> parseFunctionsAdvanced(commandString),
                        argValues |-> EmptyMap],
                       0, MaxDepth, 1)

\* ------------------------------------------------------------ the inputs

\* `f(A):<body>f(A-1)` called as f(n).
CountdownProgram(body, n) == "f(A):" \o body \o "f(A-1)\nf(" \o ToString(n) \o ")"

InstructionArgProgram == "f(B):Bf(Bs)\nf(lr)"

MutualProgram == "a:sb\nb:la\na"

LoopProgram == "f:sf\nf"

\* The instruction argument of the call refers to the parameter it is bound to.
SelfArgProgram == "f(B):B\nf(sB)"

FlatPrograms == {"", "s", "l", "ss", "lr", "rs", "ls", "sss", "srs", "srss", "lls",
                 "lsrs", "rrrr", "llll", "lsrsllssls"}

FunctionPrograms ==
    {CountdownProgram(body, n) : body \in {"s", "sssl"}, n \in (-1)..(MaxDepth + 1)}
    \cup {InstructionArgProgram, MutualProgram, LoopProgram, SelfArgProgram,
          "f:ssslsss\nff", "f:ls\ng:rs\nfg", "f(A,B):Arf(sA,B-1)\nf(5,l)"}

\* Lines close to the definition grammar: an empty body, a space before the
\* parameter list, a space inside it, an empty parameter list.
NearDefinitionPrograms == {"f:\nss", "f (A):s\nl", "f(A, B):s\nr", "f():s\ns"}

Programs == FlatPrograms \cup FunctionPrograms \cup NearDefinitionPrograms

\* The level whose robot starts in the last cell of the last row.
CornerLevel == Repeat(".\n", GRID_SIZE - 1) \o Repeat(".", GRID_SIZE - 1) \o "u"

\* The level whose robot start marker stands in column GRID_SIZE + 1.
OutsideLevel == Repeat(".", GRID_SIZE + 1) \o "u"

\* Level texts: the robot start `u`, points `o`, bombs `*`, walls `A`..`K`.
Levels == {"u", "A\nu", "*\nu", "o\nu", "o.A\nou*\n.o.", CornerLevel, OutsideLevel}

StepCaps == 0..MaxStepCap \cup {DefaultMaxSteps}

\* ------------------------------------------------- the step-wise engine

VARIABLES
    commandString,    \* the program text given to executeCommandsStepByStep
    levelData,        \* the level text the initial state was built from
    maxSteps,         \* the step cap given to executeCommandsStepByStep
    initialState,     \* the caller's initialState object
    pc,               \* where the generator is suspended: "start" (not yet
                      \* advanced), "first" (at the yield of line 368), "loop"
                      \* (line 388), "error" (line 398), "done" (returned)
    expansion,        \* the result of expanding the main program
    expandedCommands, \* the local expandedCommands
    i,                \* the index of the next character of expandedCommands
    stepCount,        \* the local stepCount
    currentState,     \* the object currentState
    delivered,        \* the snapshots yielded so far: the object yielded (ref)
                      \* and the value it had when it was yielded (at)
    returned,         \* the generator's return value, once it has returned
    probe,            \* one call of a function of the expander on its own: the
                      \* arguments and, once it has returned, what it returned
    heap,             \* the GameState objects that several runs can reach:
                      \* object 0 is the caller's initialState
    runs,             \* the generators started on that initialState
    ui                \* the page: its state hooks, the ref isStoppingRef and
                      \* where handlePlay is suspended

vars == <<commandString, levelData, maxSteps, initialState, pc, expansion,
          expandedCommands, i, stepCount, currentState, delivered, returned,
          probe, heap, runs, ui>>

\* JSON.parse(JSON.stringify(state)): a new object with the same field values
\* (every field is a string, a number, a boolean or an array of such).
JsonCopy(state) ==
    [grid            |-> [y \in 1..Len(state.grid) |-> state.grid[y]],
     robot           |-> [position  |-> [x |-> state.robot.position.x,
                                         y |-> state.robot.position.y],
                          direction |-> state.robot.direction],
     initialRobot    |-> [position  |-> [x |-> state.initialRobot.position.x,
                                         y |-> state.initialRobot.position.y],
                          direction |-> state.initialRobot.direction],
     pointsCollected |-> state.pointsCollected,
     totalPoints     |-> state.totalPoints,
     isGameOver      |-> state.isGameOver,
     isWon           |-> state.isWon,
     message         |-> state.message]

\* The value of currentState before it is assigned.
NoState ==
    [grid |-> <<>>,
     robot |-> [position |-> [x |-> 0, y |-> 0], direction |-> "up"],
     initialRobot |-> [position |-> [x |-> 0, y |-> 0], direction |-> "up"],
     pointsCollected |-> 0, totalPoints |-> 0,
     isGameOver |-> FALSE, isWon |-> FALSE, message |-> ""]

\* error.message of the error the expansion threw.
ErrorMessage(err) == IF err = "depth" THEN MsgDepth ELSE MsgStack


\* The catch block without its assignment of isGameOver.
ErrorStateNotTerminal(initial, err) ==
    [JsonCopy(initial) EXCEPT !.message = ErrorMessage(err)]

\* The errorState of the catch block.
ErrorState(initial, err) ==
    [JsonCopy(initial) EXCEPT !.isGameOver = TRUE, !.message = ErrorMessage(err)]


\* The command read one character too far.
CommandAtNext(commands, k) == CharAt(commands, k + 1)

\* expandedCommands[i].toLowerCase()
CommandAt(commands, k) ==
    LET c == CharAt(commands, k)
    IN  IF c = "S" THEN "s" ELSE IF c = "L" THEN "l" ELSE IF c = "R" THEN "r" ELSE c

IsCommand(char) == char \in {"s", "l", "r"}

RECURSIVE NextCommandIndex(_, _)
\* The index of the first character from k on that is a basic command, or the
\* length: the loop passes the other characters without yielding.
NextCommandIndex(commands, k) ==
    IF k >= Len(commands) \/ IsCommand(CommandAt(commands, k)) THEN k
    ELSE NextCommandIndex(commands, k + 1)

\* if (currentState.isGameOver || stepCount >= maxSteps)
LoopStops(state, steps, cap) == state.isGameOver \/ steps >= cap

\* The state the break branch leaves in currentState.
AfterBreak(state, steps, cap) ==
    IF steps >= cap
    THEN [state EXCEPT !.isGameOver = TRUE, !.message = MsgMaxSteps]
    ELSE state

\* yield JSON.parse(JSON.stringify(currentState))
YieldedCopy(state) == [ref |-> "copy", at |-> JsonCopy(state)]

RECURSIVE LegacyLoop(_, _, _, _)
\* The for loop of executeCommands from command k on: the states pushed and
\* currentState.
LegacyLoop(commands, k, state, states) ==
    LET command   == CharAt(commands, k)
        nextPos   == getNextPosition(state.robot.position, state.robot.direction)
        cellType  == CellAt(state.grid, nextPos)
        collected == [state EXCEPT !.grid = SetCell(state.grid, nextPos, "."),
                                   !.pointsCollected = @ + 1]
        moved(st) == [st EXCEPT !.robot.position = nextPos]
        push(st)  == LegacyLoop(commands, k + 1, st, Append(states, JsonCopy(st)))
        last(st)  == [states |-> Append(states, JsonCopy(st)), finalState |-> st]
    IN  IF k >= Len(commands) \/ state.isGameOver
        THEN [states |-> states, finalState |-> state]
        ELSE IF command = "l"
        THEN push([state EXCEPT !.robot.direction = turnLeft(@)])
        ELSE IF command = "r"
        THEN push([state EXCEPT !.robot.direction = turnRight(@)])
        ELSE IF command = "s"
        THEN IF ~isValidPosition(nextPos, state.grid)
             THEN [states     |-> states,
                   finalState |-> [state EXCEPT !.isGameOver = TRUE,
                                                !.message = MsgHitWall]]
             ELSE IF cellType = "*"
             THEN last([moved(state) EXCEPT !.isGameOver = TRUE, !.message = MsgHitBomb])
             ELSE IF cellType = "o"
             THEN IF collected.pointsCollected = collected.totalPoints
                  THEN last([moved(collected) EXCEPT !.isWon = TRUE, !.isGameOver = TRUE,
                                                     !.message = MsgWon])
                  ELSE push(moved(collected))
             ELSE push(moved(state))
        ELSE push(state)

\* The legacy batch engine; states starts with { ...initialState }, an object
\* with the field values of initialState.
executeCommands(commands, initial) ==
    LegacyLoop(commands, 0, JsonCopy(initial), <<initial>>)

\* The page before a level is played: nothing displayed by a run, Play
\* enabled. gameState names the object displayed: the resetState of
\* handlePlay, the generator's currentState, or an object of its own with
\* the value `at`. shown counts the calls of setGameState with a state of
\* the generator; stopAt is that count when Stop was requested; expansion is
\* what expanding the program of the run gives.
NoUi ==
    [pc |-> "idle", isPlaying |-> FALSE, isStoppingRef |-> FALSE,
     gameState |-> [ref |-> "resetState", at |-> NoState],
     state |-> [ref |-> "resetState", at |-> NoState],
     shown |-> 0, stopRequested |-> FALSE, stopAt |-> 0,
     expansion |-> Returned("", <<>>, EmptyMap)]

\* No function is being called on its own.
NoProbe ==
    [fn |-> "none", definitions |-> "", input |-> "", sibling |-> "",
     argValues |-> EmptyMap, done |-> FALSE, value |-> 0,
     result |-> Returned("", <<>>, EmptyMap),
     siblingAlone |-> Returned("", <<>>, EmptyMap),
     together |-> Returned("", <<>>, EmptyMap),
     parsed |-> [grid |-> <<>>, robotStart |-> [x |-> 0, y |-> 0]],
     parsedAgain |-> [grid |-> <<>>, robotStart |-> [x |-> 0, y |-> 0]],
     legacy |-> [states |-> <<>>, finalState |-> NoState]]

Init ==
    /\ commandString \in Programs
    /\ levelData \in Levels
    /\ maxSteps \in StepCaps
    /\ initialState = initializeGame(levelData)
    /\ pc = "start"
    /\ expansion = Returned("", <<>>, EmptyMap)
    /\ expandedCommands = ""
    /\ i = 0
    /\ stepCount = 0
    /\ currentState = NoState
    /\ delivered = <<>>
    /\ returned = <<>>
    /\ probe = NoProbe
    /\ heap = <<>>
    /\ runs = <<>>
    /\ ui = NoUi

\* The first next(): the program is parsed and expanded, currentState is a
\* deep copy of initialState and is itself yielded (line 368).
StartRun ==
    /\ pc = "start"
    /\ LET r == ExpandProgram(commandString)
       IN  /\ r.err = "none"
           /\ expansion' = r
           /\ expandedCommands' = r.out
    /\ currentState' = JsonCopy(initialState)
    /\ delivered' = <<[ref |-> "currentState", at |-> JsonCopy(initialState)]>>
    /\ pc' = "first"
    /\ UNCHANGED <<commandString, levelData, maxSteps, initialState, i, stepCount, returned>>
    /\ UNCHANGED <<probe, heap, runs, ui>>

\* The first next() when the expansion throws: the catch block yields
\* errorState (line 398).
StartError ==
    /\ pc = "start"
    /\ LET r == ExpandProgram(commandString)
       IN  /\ r.err # "none"
           /\ expansion' = r
           /\ delivered' = <<[ref |-> "errorState", at |-> ErrorState(initialState, r.err)]>>
    /\ pc' = "error"
    /\ UNCHANGED <<commandString, levelData, maxSteps, initialState, expandedCommands,
                   i, stepCount, currentState, returned>>
    /\ UNCHANGED <<probe, heap, runs, ui>>

\* A next() that applies one command and yields a copy of the state (line 388).
ApplyCommand ==
    /\ pc \in {"first", "loop"}
    /\ i < Len(expandedCommands)
    /\ ~LoopStops(currentState, stepCount, maxSteps)
    /\ LET k == NextCommandIndex(expandedCommands, i)
       IN  /\ k < Len(expandedCommands)
           /\ currentState' = executeOneCommand(CommandAt(expandedCommands, k), currentState)
           /\ i' = k + 1
    /\ stepCount' = stepCount + 1
    /\ delivered' = Append(delivered, YieldedCopy(currentState'))
    /\ pc' = "loop"
    /\ UNCHANGED <<commandString, levelData, maxSteps, initialState, expansion,
                   expandedCommands, returned>>
    /\ UNCHANGED <<probe, heap, runs, ui>>

\* A next() that finds the state terminal or the step cap reached with
\* commands left: the loop breaks and the generator returns currentState.
BreakLoop ==
    /\ pc \in {"first", "loop"}
    /\ i < Len(expandedCommands)
    /\ LoopStops(currentState, stepCount, maxSteps)
    /\ currentState' = AfterBreak(currentState, stepCount, maxSteps)
    /\ returned' = <<[ref |-> "currentState", at |-> currentState']>>
    /\ pc' = "done"
    /\ UNCHANGED <<commandString, levelData, maxSteps, initialState, expansion,
                   expandedCommands, i, stepCount, delivered>>
    /\ UNCHANGED <<probe, heap, runs, ui>>

\* A next() that finds no command left: the generator returns currentState.
Exhausted ==
    /\ pc \in {"first", "loop"}
    /\ \/ i >= Len(expandedCommands)
       \/ /\ ~LoopStops(currentState, stepCount, maxSteps)
          /\ NextCommandIndex(expandedCommands, i) >= Len(expandedCommands)
    /\ returned' = <<[ref |-> "currentState", at |-> currentState]>>
    /\ pc' = "done"
    /\ UNCHANGED <<commandString, levelData, maxSteps, initialState, expansion,
                   expandedCommands, i, stepCount, currentState, delivered>>
    /\ UNCHANGED <<probe, heap, runs, ui>>

\* The next() after the error snapshot: the generator returns errorState.
FinishError ==
    /\ pc = "error"
    /\ returned' = <<[ref |-> "errorState", at |-> delivered[1].at]>>
    /\ pc' = "done"
    /\ UNCHANGED <<commandString, levelData, maxSteps, initialState, expansion,
                   expandedCommands, i, stepCount, currentState, delivered>>
    /\ UNCHANGED <<probe, heap, runs, ui>>

\* Once the step-wise run of a flat command list has ended, the legacy engine
\* executeCommands is called on the same commands and the same initialState.
RunLegacy ==
    /\ pc = "done"
    /\ probe.fn = "none"
    /\ AllIn(commandString, {"s", "l", "r"})
    /\ probe' = [probe EXCEPT !.fn     = "executeCommands",
                              !.input  = commandString,
                              !.done   = TRUE,
                              !.legacy = executeCommands(commandString, initialState)]
    /\ UNCHANGED <<commandString, levelData, maxSteps, initialState, pc, expansion,
                   expandedCommands, i, stepCount, currentState, delivered, returned,
                   heap, runs, ui>>

Next ==
    \/ StartRun
    \/ StartError
    \/ ApplyCommand
    \/ BreakLoop
    \/ Exhausted
    \/ FinishError
    \/ RunLegacy

Spec == Init /\ [][Next]_vars

\* ------------------------------------------ the expander's functions alone

\* The values context.argValues can hold for a name: a number or an
\* instruction fragment.
BindingValues == {NumValue(n) : n \in 0..MaxDepth} \cup {StrValue("s"), StrValue("lr")}

\* The Maps over the names A and B.
ArgMaps ==
    UNION {[names -> BindingValues] : names \in SUBSET {"A", "B"}}

\* Expressions as they stand between the parentheses of a call.
Expressions == {"5", "A", "B", "A+1", "1+A", "2+A", "A+B", "B+A+1", "1+2", "1+2+3",
                "A-1", "3-1", "5-1-1", "A-1-1", "A-B", "1-A", "10-3", "A+1-1"}

EvaluateProbes ==
    {[NoProbe EXCEPT !.fn = "evaluateExpression", !.input = expr, !.argValues = m] :
        expr \in Expressions, m \in ArgMaps}

\* The engine's variables while no generator is running.
EngineIdle ==
    /\ commandString = ""
    /\ maxSteps = DefaultMaxSteps
    /\ initialState = NoState
    /\ pc = "done"
    /\ expansion = Returned("", <<>>, EmptyMap)
    /\ expandedCommands = ""
    /\ i = 0
    /\ stepCount = 0
    /\ currentState = NoState
    /\ delivered = <<>>
    /\ returned = <<>>

\* g declares two parameters and its body refers to the second one, as an
\* instruction and as the numeric argument of a call of h.
ExtraParameterDefinitions == "g(A,B):Bh(B)\nh(C):l"

\* Calls of g: without arguments, with one, with two.
CallsOfG == {"g", "g(1)", "g(2)", "g(0)", "g(s)", "g(1,r)", "g(1,2)"}

\* f binds A; g and h refer to the names the caller's context binds.
SiblingDefinitions == "f(A):sAh(A)\ng:Ah(A)B\nh(C):l\nk(B,A):r"

FirstCalls == {"f(2)", "f(lr)", "f(0)", "f(A)", "k(1,2)", "k(s,l)"}

LaterSiblings == {"g", "f(A)", "h(A)", "AB", "k(A,B)g"}

ExpandProbes ==
    {[NoProbe EXCEPT !.fn = "expandInstructions", !.definitions = ExtraParameterDefinitions,
                     !.input = call, !.argValues = m] :
        call \in CallsOfG, m \in ArgMaps}
    \cup
    {[NoProbe EXCEPT !.fn = "expandInstructions", !.definitions = SiblingDefinitions,
                     !.input = first, !.sibling = later, !.argValues = m] :
        first \in FirstCalls, later \in LaterSiblings, m \in ArgMaps}

\* Level texts with fewer, with exactly and with more than GRID_SIZE rows and
\* columns, an empty one, and ones with no or several robot start markers.
LevelTexts ==
    Levels \cup {"", "o*A", "uu\nu", " u.\n", Repeat("o", GRID_SIZE + 3),
                 Repeat("o\n", GRID_SIZE + 1) \o "u",
                 Repeat("o", GRID_SIZE - 1) \o "u" \o Repeat("\n*", GRID_SIZE - 1)}

ParseLevelProbes ==
    {[NoProbe EXCEPT !.fn = "parseLevel", !.input = text] : text \in LevelTexts}

PureInit ==
    /\ EngineIdle
    /\ ui = NoUi
    /\ levelData = ""
    /\ heap = <<>>
    /\ runs = <<>>
    /\ probe \in EvaluateProbes \cup ExpandProbes \cup ParseLevelProbes

\* evaluateExpression(expr, context) is called and returns.
Evaluate ==
    /\ probe.fn = "evaluateExpression"
    /\ ~probe.done
    /\ probe' = [probe EXCEPT
                    !.done  = TRUE,
                    !.value = evaluateExpression(probe.input,
                                  [functions |-> EmptyMap, argValues |-> probe.argValues])]
    /\ UNCHANGED <<commandString, levelData, maxSteps, initialState, pc, expansion,
                   expandedCommands, i, stepCount, currentState, delivered, returned,
                   heap, runs, ui>>

\* expandInstructions(instructions, context, 0, maxDepth) is called and
\* returns, on the instructions, on the sibling that follows them, and on the
\* two in one body, each time in a context with the same bindings.
Expand ==
    /\ probe.fn = "expandInstructions"
    /\ ~probe.done
    /\ LET context == [functions |-> parseFunctionsAdvanced(probe.definitions),
                       argValues |-> probe.argValues]
           run(instructions) == expandInstructions(instructions, context, 0, MaxDepth, 1)
       IN  probe' = [probe EXCEPT !.done         = TRUE,
                                  !.result       = run(probe.input),
                                  !.siblingAlone = run(probe.sibling),
                                  !.together     = run(probe.input \o probe.sibling)]
    /\ UNCHANGED <<commandString, levelData, maxSteps, initialState, pc, expansion,
                   expandedCommands, i, stepCount, currentState, delivered, returned,
                   heap, runs, ui>>

\* parseLevel(levelData) is called twice on the same text and returns.
ParseLevel ==
    /\ probe.fn = "parseLevel"
    /\ ~probe.done
    /\ probe' = [probe EXCEPT !.done        = TRUE,
                              !.parsed      = parseLevel(probe.input),
                              !.parsedAgain = parseLevel(probe.input)]
    /\ UNCHANGED <<commandString, levelData, maxSteps, initialState, pc, expansion,
                   expandedCommands, i, stepCount, currentState, delivered, returned,
                   heap, runs, ui>>

PureNext ==
    \/ Evaluate
    \/ Expand
    \/ ParseLevel

PureSpec == PureInit /\ [][PureNext]_vars

\* ------------------------------------- several runs on one initialState

RunIds == 1..2

TwoRunPrograms == {"ls", "lsrs", MutualProgram}

TwoRunLevels == {"o.A\nou*\n.o.", "o\nu"}

TwoRunCaps == {1, DefaultMaxSteps}

\* `let currentState = initialState` in place of the copy: the caller's object.
SameObject(source, fresh) == source

\* let currentState = JSON.parse(JSON.stringify(initialState)): the object
\* currentState names is a new one, not the one it was copied from.
NewObject(source, fresh) == fresh

\* A generator that has not been advanced yet.
NewRun(program, cap) ==
    [commandString |-> program, maxSteps |-> cap, pc |-> "start",
     expandedCommands |-> "", i |-> 0, stepCount |-> 0, currentState |-> 0,
     delivered |-> <<>>, abandoned |-> FALSE, overlapped |-> FALSE]

TwoRunsInit ==
    /\ EngineIdle
    /\ ui = NoUi
    /\ probe = NoProbe
    /\ levelData \in TwoRunLevels
    /\ heap = [id \in {0} |-> initializeGame(levelData)]
    /\ runs \in [RunIds -> {NewRun(program, cap) :
                               program \in TwoRunPrograms, cap \in TwoRunCaps}]

\* The object run r's currentState names.
StateOf(r) == heap[runs[r].currentState]

\* Some other generator is suspended between two of its yields.
OtherMidRun(r) == \E o \in RunIds \ {r} : runs[o].pc \in {"first", "loop"}

EngineUnchanged ==
    UNCHANGED <<commandString, levelData, maxSteps, initialState, pc, expansion,
                expandedCommands, i, stepCount, currentState, delivered, returned,
                probe, ui>>

\* The first next() of run r (lines 345-368).
RunStart(r) ==
    /\ runs[r].pc = "start"
    /\ LET x      == ExpandProgram(runs[r].commandString)
           object == NewObject(0, r)
       IN  /\ x.err = "none"
           /\ heap' = MapSet(heap, object, JsonCopy(heap[0]))
           /\ runs' = [runs EXCEPT ![r] =
                         [@ EXCEPT !.pc = "first",
                                   !.expandedCommands = x.out,
                                   !.currentState = object,
                                   !.delivered = <<[ref |-> "currentState",
                                                    at  |-> JsonCopy(heap[0])]>>]]
    /\ EngineUnchanged

\* The first next() of run r when the expansion throws (lines 393-398).
RunStartError(r) ==
    /\ runs[r].pc = "start"
    /\ LET x == ExpandProgram(runs[r].commandString)
       IN  /\ x.err # "none"
           /\ runs' = [runs EXCEPT ![r] =
                         [@ EXCEPT !.pc = "error",
                                   !.delivered = <<[ref |-> "errorState",
                                                    at  |-> ErrorState(heap[0], x.err)]>>]]
    /\ UNCHANGED heap
    /\ EngineUnchanged

\* A next() of run r that applies one command and yields a copy (lines 373-389).
RunApply(r) ==
    /\ runs[r].pc \in {"first", "loop"}
    /\ runs[r].i < Len(runs[r].expandedCommands)
    /\ ~LoopStops(StateOf(r), runs[r].stepCount, runs[r].maxSteps)
    /\ LET k     == NextCommandIndex(runs[r].expandedCommands, runs[r].i)
           after == executeOneCommand(CommandAt(runs[r].expandedCommands, k), StateOf(r))
       IN  /\ k < Len(runs[r].expandedCommands)
           /\ heap' = [heap EXCEPT ![runs[r].currentState] = after]
           /\ runs' = [runs EXCEPT ![r] =
                         [@ EXCEPT !.pc = "loop",
                                   !.i = k + 1,
                                   !.stepCount = @ + 1,
                                   !.delivered = Append(@, YieldedCopy(after)),
                                   !.overlapped = @ \/ OtherMidRun(r)]]
    /\ EngineUnchanged

\* A next() of run r that breaks out of the loop (lines 374-380).
RunBreak(r) ==
    /\ runs[r].pc \in {"first", "loop"}
    /\ runs[r].i < Len(runs[r].expandedCommands)
    /\ LoopStops(StateOf(r), runs[r].stepCount, runs[r].maxSteps)
    /\ heap' = [heap EXCEPT ![runs[r].currentState] =
                   AfterBreak(StateOf(r), runs[r].stepCount, runs[r].maxSteps)]
    /\ runs' = [runs EXCEPT ![r] = [@ EXCEPT !.pc = "done"]]
    /\ EngineUnchanged

\* A next() of run r that finds no command left (lines 373, 392).
RunExhausted(r) ==
    /\ runs[r].pc \in {"first", "loop"}
    /\ \/ runs[r].i >= Len(runs[r].expandedCommands)
       \/ /\ ~LoopStops(StateOf(r), runs[r].stepCount, runs[r].maxSteps)
          /\ NextCommandIndex(runs[r].expandedCommands, runs[r].i)
                >= Len(runs[r].expandedCommands)
    /\ runs' = [runs EXCEPT ![r] = [@ EXCEPT !.pc = "done"]]
    /\ UNCHANGED heap
    /\ EngineUnchanged

\* The next() of run r after its error snapshot (line 399).
RunFinishError(r) ==
    /\ runs[r].pc = "error"
    /\ runs' = [runs EXCEPT ![r] = [@ EXCEPT !.pc = "done"]]
    /\ UNCHANGED heap
    /\ EngineUnchanged

\* The driver leaves its for...of loop over run r with a break: the
\* generator is closed where it is suspended and yields nothing more.
RunAbandon(r) ==
    /\ runs[r].pc \in {"first", "loop", "error"}
    /\ runs' = [runs EXCEPT ![r] = [@ EXCEPT !.pc = "done", !.abandoned = TRUE]]
    /\ UNCHANGED heap
    /\ EngineUnchanged

TwoRunsNext ==
    \E r \in RunIds :
        \/ RunStart(r)
        \/ RunStartError(r)
        \/ RunApply(r)
        \/ RunBreak(r)
        \/ RunExhausted(r)
        \/ RunFinishError(r)
        \/ RunAbandon(r)

TwoRunsSpec == TwoRunsInit /\ [][TwoRunsNext]_vars

\* --------------------------------------------------- the driver of a run

DriverPrograms == {"s", "srs", "lsrs", "lsrsllssls", "rrrr", MutualProgram, "f:ls\nf"}

DriverLevels == {"u", "o\nu", "o.A\nou*\n.o."}

\* What one call of next() on the generator `run` does: the heap and the
\* generator afterwards, and whether the generator has returned (done) or
\* yielded; what it yielded is then the last element of run.delivered. `x` is
\* what the expansion of run.commandString gives, a function of that text.
GeneratorNext(run, objects, object, x) ==
    LET state == objects[run.currentState]
        k     == NextCommandIndex(run.expandedCommands, run.i)
        after == executeOneCommand(CommandAt(run.expandedCommands, k), state)
        ends(hp) == [done |-> TRUE, heap |-> hp, run |-> [run EXCEPT !.pc = "done"]]
    IN  IF run.pc = "start"
        THEN IF x.err # "none"
             THEN [done |-> FALSE, heap |-> objects,
                   run  |-> [run EXCEPT
                               !.pc = "error",
                               !.delivered = <<[ref |-> "errorState",
                                                at  |-> ErrorState(objects[0], x.err)]>>]]
             ELSE [done |-> FALSE,
                   heap |-> MapSet(objects, object, JsonCopy(objects[0])),
                   run  |-> [run EXCEPT
                               !.pc = "first",
                               !.expandedCommands = x.out,
                               !.currentState = object,
                               !.delivered = <<[ref |-> "currentState",
                                                at  |-> JsonCopy(objects[0])]>>]]
        ELSE IF run.pc \in {"error", "done"} THEN ends(objects)
        ELSE IF run.i >= Len(run.expandedCommands) THEN ends(objects)
        ELSE IF LoopStops(state, run.stepCount, run.maxSteps)
        THEN ends([objects EXCEPT ![run.currentState] =
                      AfterBreak(state, run.stepCount, run.maxSteps)])
        ELSE IF k >= Len(run.expandedCommands) THEN ends(objects)
        ELSE [done |-> FALSE,
              heap |-> [objects EXCEPT ![run.currentState] = after],
              run  |-> [run EXCEPT !.pc = "loop",
                                   !.i = k + 1,
                                   !.stepCount = @ + 1,
                                   !.delivered = Append(@, YieldedCopy(after))]]

\* The value an object the page holds has now.
ValueNow(object) ==
    IF object.ref = "currentState" THEN heap[runs[1].currentState]
    ELSE IF object.ref = "resetState" THEN heap[0]
    ELSE object.at

DriverInit ==
    /\ commandString \in DriverPrograms
    /\ levelData \in DriverLevels
    /\ maxSteps = DefaultMaxSteps
    /\ initialState = NoState
    /\ pc = "done"
    /\ expansion = Returned("", <<>>, EmptyMap)
    /\ expandedCommands = ""
    /\ i = 0
    /\ stepCount = 0
    /\ currentState = NoState
    /\ delivered = <<>>
    /\ returned = <<>>
    /\ probe = NoProbe
    /\ heap = [id \in {0} |-> initializeGame(levelData)]
    /\ runs = <<>>
    /\ ui = NoUi

DriverUnchanged ==
    UNCHANGED <<commandString, levelData, maxSteps, initialState, pc, expansion,
                expandedCommands, i, stepCount, currentState, delivered, returned,
                probe>>

\* handlePlay up to its first await: the page shows resetState. The
\* generator is made on it after the await and expands the program at its
\* first next(); what that expansion gives depends on the program text
\* alone and is recorded here.
Play ==
    /\ ui.pc = "idle"
    /\ ~ui.isPlaying
    /\ runs = <<>>
    /\ heap' = [id \in {0} |-> initializeGame(levelData)]
    /\ runs' = <<NewRun(commandString, DefaultMaxSteps)>>
    /\ ui' = [ui EXCEPT !.pc = "delay", !.isPlaying = TRUE, !.isStoppingRef = FALSE,
                        !.gameState = [ref |-> "resetState", at |-> heap'[0]],
                        !.expansion = ExpandProgram(commandString)]
    /\ DriverUnchanged

\* handleStop: the Stop button is enabled while isPlaying.
Stop ==
    /\ ui.isPlaying
    /\ ~ui.isStoppingRef
    /\ ui' = [ui EXCEPT !.isStoppingRef = TRUE, !.stopRequested = TRUE,
                        !.stopAt = ui.shown]
    /\ UNCHANGED <<heap, runs>>
    /\ DriverUnchanged

\* The end of handlePlay after its loop.
Finished(page) ==
    [page EXCEPT !.pc = "ended", !.isPlaying = FALSE, !.isStoppingRef = FALSE]

\* The generator after the for...of loop was left by a break.
Closed(run) == [run EXCEPT !.pc = "done", !.abandoned = TRUE]

\* The stop test reading nothing.
StopIgnored(isStoppingRef) == FALSE

\* if (isStoppingRef.current)
StopRequested(isStoppingRef) == isStoppingRef

\* handlePlay is resumed after the await of an iteration and finds
\* state.isGameOver: it leaves the loop.
GameOverSeen ==
    /\ ui.pc = "sleep"
    /\ ValueNow(ui.state).isGameOver
    /\ runs' = <<Closed(runs[1])>>
    /\ ui' = Finished(ui)
    /\ UNCHANGED heap
    /\ DriverUnchanged

\* handlePlay is resumed and the next state of the generator is asked for.
Resumed == ui.pc = "delay" \/ (ui.pc = "sleep" /\ ~ValueNow(ui.state).isGameOver)

\* The generator has returned: the loop ends.
RunOut ==
    /\ Resumed
    /\ LET g == GeneratorNext(runs[1], heap, NewObject(0, 1), ui.expansion)
       IN  /\ g.done
           /\ heap' = g.heap
           /\ runs' = <<g.run>>
    /\ ui' = Finished(ui)
    /\ DriverUnchanged

\* The generator yields a state and Stop was requested: the loop is left
\* before setGameState.
StopSeen ==
    /\ Resumed
    /\ LET g == GeneratorNext(runs[1], heap, NewObject(0, 1), ui.expansion)
       IN  /\ ~g.done
           /\ StopRequested(ui.isStoppingRef)
           /\ heap' = g.heap
           /\ runs' = <<Closed(g.run)>>
    /\ ui' = Finished(ui)
    /\ DriverUnchanged

\* The generator yields a state and it is displayed: setGameState(state),
\* then the await of animationSpeed.
ShowNext ==
    /\ Resumed
    /\ LET g == GeneratorNext(runs[1], heap, NewObject(0, 1), ui.expansion)
           yielded == g.run.delivered[Len(g.run.delivered)]
       IN  /\ ~g.done
           /\ ~StopRequested(ui.isStoppingRef)
           /\ heap' = g.heap
           /\ runs' = <<g.run>>
           /\ ui' = [ui EXCEPT !.pc = "sleep", !.gameState = yielded,
                               !.state = yielded, !.shown = @ + 1]
    /\ DriverUnchanged

DriverNext ==
    \/ Play
    \/ Stop
    \/ GameOverSeen
    \/ RunOut
    \/ StopSeen
    \/ ShowNext

\* The timers that handlePlay awaits fire: a suspended handlePlay is resumed.
DriverSpec ==
    /\ DriverInit
    /\ [][DriverNext]_vars
    /\ WF_vars(GameOverSeen \/ RunOut \/ StopSeen \/ ShowNext)

\* ---------------------------------------------------------- the claims

RECURSIVE ApplyPrefix(_, _, _)
\* The state after the first k primitive instructions of `commands` are
\* applied, one after the other, to `state`.
ApplyPrefix(state, commands, k) ==
    IF k <= 0 THEN state
    ELSE executeOneCommand(CharAt(commands, k - 1), ApplyPrefix(state, commands, k - 1))

\* The value the last snapshot had when it was yielded.
LastDelivered == delivered[Len(delivered)].at

\* The next() about to run applies the command at index i.
StepApplies ==
    /\ pc \in {"first", "loop"}
    /\ i < Len(expandedCommands)
    /\ ~currentState.isGameOver
    /\ stepCount < maxSteps

\* The cell the robot faces.
Ahead(state) == getNextPosition(state.robot.position, state.robot.direction)

\* The robot of `state` faces the edge of the grid.
FacesEdge(state) ==
    LET p == state.robot.position
        d == state.robot.direction
    IN  \/ d = "up" /\ p.y = 0
        \/ d = "left" /\ p.x = 0
        \/ d = "down" /\ p.y = GRID_SIZE - 1
        \/ d = "right" /\ p.x = GRID_SIZE - 1

\* C1: once currentState has isGameOver set, no later next() changes any
\* field of it and no further snapshot is yielded.
C1_TerminalStateFrozen ==
    [][currentState.isGameOver =>
          (currentState' = currentState /\ delivered' = delivered)]_vars

\* C2: the k-th snapshot yielded (k = 0 for the first) is, when it is
\* yielded, the result of applying exactly the first k primitive instructions
\* of the expanded stream to a copy of the initial state.
C2_SnapshotIsPrefix ==
    expansion.err = "none" =>
        \A k \in 1..Len(delivered) :
            delivered[k].at = ApplyPrefix(JsonCopy(initialState), expandedCommands, k - 1)

C2_Witness ==
    /\ pc = "loop"
    /\ expansion.err = "none"
    /\ Len(delivered) >= 3
    /\ LastDelivered # delivered[1].at
    /\ LastDelivered # delivered[2].at

\* C3: when the expanded stream holds more instructions than maxSteps and the
\* state is still running after maxSteps of them, the run ends with a final
\* yielded snapshot that is terminal, not won, with the maximum-steps message.
C3_StepCapDelivered ==
    ( /\ pc = "done"
      /\ expansion.err = "none"
      /\ Len(expandedCommands) > maxSteps
      /\ ~ApplyPrefix(JsonCopy(initialState), expandedCommands, maxSteps).isGameOver )
    => /\ LastDelivered.isGameOver
       /\ ~LastDelivered.isWon
       /\ LastDelivered.message = MsgMaxSteps

RECURSIVE GrowingLevels(_)
\* `lr`, `lrs`, `lrss`, ...: the first n levels, in order.
GrowingLevels(n) ==
    IF n <= 0 THEN "" ELSE GrowingLevels(n - 1) \o "lr" \o Repeat("s", n - 1)

\* C4: with `f(B):Bf(Bs)` and main `f(lr)`, level n of the recursion emits
\* `lr` followed by n-1 `s`, level after level, until the call beyond the
\* depth limit raises the depth-exceeded error.
C4_InstructionArgGrows ==
    (commandString = InstructionArgProgram /\ pc # "start")
    => /\ expansion.err = "depth"
       /\ expansion.out = GrowingLevels(MaxDepth + 1)

\* C5: with `f(A):sf(A-1)` (and `f(A):ssslf(A-1)`), for every n up to the
\* depth limit the main program f(n) expands, without error, to exactly
\* max(n, 0) copies of `s` (of `sssl`).
C5_CountdownExpands ==
    \A body \in {"s", "sssl"}, n \in (-1)..MaxDepth :
        (commandString = CountdownProgram(body, n) /\ pc # "start")
        => /\ expansion.err = "none"
           /\ expansion.out = Repeat(body, IF n > 0 THEN n ELSE 0)
           /\ expandedCommands = expansion.out

C5_Witness ==
    /\ commandString = CountdownProgram("sssl", MaxDepth)
    /\ pc = "first"
    /\ expandedCommands = Repeat("sssl", MaxDepth)

C7_ErrorSnapshot ==
    expansion.err # "none"
    => /\ Len(delivered) = 1
       /\ delivered[1].at.grid = initialState.grid
       /\ delivered[1].at.robot = initialState.robot
       /\ delivered[1].at.pointsCollected = initialState.pointsCollected
       /\ delivered[1].at.totalPoints = initialState.totalPoints
       /\ delivered[1].at.isWon = initialState.isWon
       /\ delivered[1].at.isGameOver
       /\ delivered[1].at.message = ErrorMessage(expansion.err)
       /\ stepCount = 0
       /\ currentState = NoState
       /\ initialState = initializeGame(levelData)
       /\ ~initialState.isGameOver

C7_Witness ==
    /\ pc = "done"
    /\ expansion.err = "depth"
    /\ Len(delivered) = 1
    /\ delivered[1].at.message = MsgDepth

\* C8: for `f:sf` with main `f`, the run yields snapshots in which the robot
\* advances and ends in the hit-wall or hit-bomb terminal state.
C8_LoopRunsToWall ==
    (commandString = LoopProgram /\ pc = "done")
    => /\ Len(delivered) >= 2
       /\ LastDelivered.isGameOver
       /\ LastDelivered.message \in {MsgHitWall, MsgHitBomb}

\* C9: an `s` whose target cell is inside the grid and is a wall kind leaves
\* every field of the state unchanged, and the run goes on: the unchanged
\* state is yielded and the generator stays in its loop.
C9_WallBlocksStep ==
    [][ ( /\ StepApplies
          /\ CharAt(expandedCommands, i) = "s"
          /\ ~FacesEdge(currentState)
          /\ CellAt(currentState.grid, Ahead(currentState)) \in WallKinds )
        => /\ currentState' = currentState
           /\ ~currentState'.isGameOver
           /\ delivered' = Append(delivered, [ref |-> "copy", at |-> currentState])
           /\ i' = i + 1
           /\ pc' = "loop" ]_vars

C9_Witness ==
    /\ pc = "loop"
    /\ i >= 1
    /\ CharAt(expandedCommands, i - 1) = "s"
    /\ ~FacesEdge(currentState)
    /\ CellAt(currentState.grid, Ahead(currentState)) \in WallKinds
    /\ delivered[Len(delivered) - 1].at = currentState
    /\ LastDelivered = currentState
    /\ ~currentState.isGameOver

\* C10: an `s` whose target cell lies outside the grid makes the state
\* terminal and not won, with the hit-wall message and robot, grid and
\* pointsCollected unchanged; that state is yielded, and afterwards no
\* snapshot is yielded and robot, grid and pointsCollected stay as they are.
C10_OutOfGridLoses ==
    [][ /\ ( /\ StepApplies
             /\ CharAt(expandedCommands, i) = "s"
             /\ FacesEdge(currentState) )
           => /\ currentState' = [currentState EXCEPT !.isGameOver = TRUE,
                                                       !.message = MsgHitWall]
              /\ ~currentState'.isWon
              /\ delivered' = Append(delivered, [ref |-> "copy", at |-> currentState'])
        /\ currentState.isGameOver
           => /\ delivered' = delivered
              /\ currentState'.robot = currentState.robot
              /\ currentState'.grid = currentState.grid
              /\ currentState'.pointsCollected = currentState.pointsCollected
              /\ currentState'.isGameOver ]_vars

C10_Witness ==
    /\ pc = "done"
    /\ i < Len(expandedCommands)
    /\ LastDelivered.isGameOver
    /\ ~LastDelivered.isWon
    /\ LastDelivered.message = MsgHitWall
    /\ LastDelivered.robot = delivered[Len(delivered) - 1].at.robot
    /\ LastDelivered.robot.direction = "down"
    /\ LastDelivered.robot.position.y = GRID_SIZE - 1

\* Every cell of grid `a` but the one at `pos` is the cell of grid `b` there.
SameGridBut(a, b, pos) ==
    /\ Len(a) = Len(b)
    /\ \A y \in 1..Len(b) :
          /\ Len(a[y]) = Len(b[y])
          /\ \A x \in 0..(Len(b[y]) - 1) :
                (x # pos.x \/ y - 1 # pos.y) => CharAt(a[y], x) = CharAt(b[y], x)

\* C11: an `s` whose target cell is a bomb moves the robot onto that cell and
\* yields a snapshot that is terminal and not won, with the robot on the
\* bomb's cell and grid and pointsCollected unchanged; it is the last one.
C11_BombEndsRun ==
    [][ /\ ( /\ StepApplies
             /\ CharAt(expandedCommands, i) = "s"
             /\ ~FacesEdge(currentState)
             /\ CellAt(currentState.grid, Ahead(currentState)) = "*" )
           => /\ currentState'.robot.position = Ahead(currentState)
              /\ currentState'.robot.direction = currentState.robot.direction
              /\ currentState'.isGameOver
              /\ ~currentState'.isWon
              /\ currentState'.message = MsgHitBomb
              /\ currentState'.grid = currentState.grid
              /\ currentState'.pointsCollected = currentState.pointsCollected
              /\ delivered' = Append(delivered, [ref |-> "copy", at |-> currentState'])
        /\ (pc = "loop" /\ LastDelivered.message = MsgHitBomb)
           => delivered' = delivered ]_vars

C11_Witness ==
    /\ pc = "loop"
    /\ LastDelivered.isGameOver
    /\ ~LastDelivered.isWon
    /\ LastDelivered.message = MsgHitBomb
    /\ CellAt(LastDelivered.grid, LastDelivered.robot.position) = "*"
    /\ LastDelivered.robot.position # delivered[Len(delivered) - 1].at.robot.position

\* C12: an `s` whose target cell is a point moves the robot onto that cell,
\* turns exactly that cell into empty and adds exactly one to
\* pointsCollected; the state is won (isWon and isGameOver) if and only if
\* pointsCollected then equals totalPoints, and otherwise stays running.
C12_PointCollected ==
    [][ ( /\ StepApplies
          /\ CharAt(expandedCommands, i) = "s"
          /\ ~FacesEdge(currentState)
          /\ CellAt(currentState.grid, Ahead(currentState)) = "o" )
        => /\ currentState'.robot.position = Ahead(currentState)
           /\ currentState'.robot.direction = currentState.robot.direction
           /\ CellAt(currentState'.grid, Ahead(currentState)) = "."
           /\ SameGridBut(currentState'.grid, currentState.grid, Ahead(currentState))
           /\ currentState'.pointsCollected = currentState.pointsCollected + 1
           /\ currentState'.totalPoints = currentState.totalPoints
           /\ currentState'.isWon
                 = (currentState'.pointsCollected = currentState'.totalPoints)
           /\ currentState'.isGameOver = currentState'.isWon
           /\ delivered' = Append(delivered, [ref |-> "copy", at |-> currentState']) ]_vars

C12_Witness ==
    /\ pc = "loop"
    /\ Len(delivered) >= 2
    /\ LastDelivered.isWon
    /\ LastDelivered.pointsCollected = 3
    /\ delivered[Len(delivered) - 1].at.pointsCollected = 2
    /\ ~delivered[Len(delivered) - 1].at.isGameOver
    /\ CellAt(delivered[Len(delivered) - 1].at.grid, LastDelivered.robot.position) = "o"
    /\ CellAt(LastDelivered.grid, LastDelivered.robot.position) = "."

\* C13: in every snapshot of a run started from initializeGame, isWon
\* implies isGameOver and isWon implies pointsCollected = totalPoints.
C13_WonImpliesOverAndAll ==
    /\ \A k \in 1..Len(delivered) :
          delivered[k].at.isWon =>
              /\ delivered[k].at.isGameOver
              /\ delivered[k].at.pointsCollected = delivered[k].at.totalPoints
    /\ currentState.isWon =>
          /\ currentState.isGameOver
          /\ currentState.pointsCollected = currentState.totalPoints

C13_Witness ==
    /\ Len(delivered) >= 2
    /\ LastDelivered.isWon
    /\ LastDelivered.totalPoints = 3
    /\ ~delivered[Len(delivered) - 1].at.isWon

\* C14: along the snapshots of a run started from initializeGame,
\* pointsCollected never decreases and stays within 0..totalPoints, and
\* totalPoints never changes.
C14_PointsMonotoneBounded ==
    \A k \in 1..Len(delivered) :
        /\ 0 <= delivered[k].at.pointsCollected
        /\ delivered[k].at.pointsCollected <= delivered[k].at.totalPoints
        /\ delivered[k].at.totalPoints = countTotalPoints(initialState.grid)
        /\ k > 1 => delivered[k].at.pointsCollected >= delivered[k - 1].at.pointsCollected

C14_Witness ==
    /\ Len(delivered) >= 4
    /\ LastDelivered.pointsCollected = 2
    /\ LastDelivered.totalPoints = 3
    /\ delivered[1].at.pointsCollected = 0
    /\ ~LastDelivered.isGameOver

\* The line is recognised as a function definition and is in the table.
IsEnteredDefinition(line, functions) ==
    LET trimmedLine == Trim(line)
        withArgs    == MatchWithArgs(trimmedLine)
        noArgs      == MatchNoArgs(trimmedLine)
    IN  \/ withArgs.matched /\ withArgs.funcName \in DOMAIN functions
        \/ noArgs.matched /\ noArgs.funcName \in DOMAIN functions

\* C16: once a run has read the program text, every line of it is either a
\* function definition entered in the function table or one of the lines
\* joined into the main instruction sequence.
C16_EveryLineUsed ==
    pc # "start" =>
        LET lines          == Split(commandString, "\n")
            functions      == parseFunctionsAdvanced(commandString)
            executionLines == ExecutionLines(lines)
        IN  \A k \in 1..Len(lines) :
               \/ IsEnteredDefinition(lines[k], functions)
               \/ \E j \in 1..Len(executionLines) : executionLines[j] = lines[k]

\* A term of an expression: an integer literal or a single uppercase letter.
IsLiteral(term) == Len(term) > 0 /\ AllIn(term, Digit)

IsLetter(term) == Len(term) = 1 /\ term \in Upper

IsTerm(term) == IsLiteral(term) \/ IsLetter(term)

AllTerms(parts) == \A k \in 1..Len(parts) : IsTerm(parts[k])

\* The value of a term: the literal's value, the letter's numeric binding, 0
\* when the letter is unbound or bound to an instruction fragment.
TermValue(term, argValues) ==
    IF IsLiteral(term) THEN DigitsValue(term, 0)
    ELSE IF term \in DOMAIN argValues /\ argValues[term].kind = "number"
    THEN argValues[term].num
    ELSE 0

RECURSIVE SumTerms(_, _)
SumTerms(parts, argValues) ==
    IF parts = <<>> THEN 0
    ELSE TermValue(Head(parts), argValues) + SumTerms(Tail(parts), argValues)

\* C17: evaluateExpression on `+`-delimited terms, each an integer literal or
\* a single uppercase letter, returns the sum of the values of all the terms,
\* whatever the order of literals and letters.
C17_PlusSumsAllTerms ==
    ( /\ probe.fn = "evaluateExpression"
      /\ probe.done
      /\ Includes(probe.input, "+")
      /\ AllTerms(Split(probe.input, "+")) )
    => probe.value = SumTerms(Split(probe.input, "+"), probe.argValues)

\* C18: evaluateExpression on `-`-delimited terms without `+` returns left
\* minus right when there are exactly two terms and 0 when there are more.
C18_MinusTwoTermsOnly ==
    LET parts == Split(probe.input, "-")
    IN  ( /\ probe.fn = "evaluateExpression"
          /\ probe.done
          /\ ~Includes(probe.input, "+")
          /\ Includes(probe.input, "-")
          /\ AllTerms(parts) )
        => probe.value = IF Len(parts) = 2
                         THEN TermValue(parts[1], probe.argValues)
                              - TermValue(parts[2], probe.argValues)
                         ELSE 0

\* A call of g that gives no argument for g's second parameter B.
IsShortCallOfG ==
    /\ probe.fn = "expandInstructions"
    /\ probe.done
    /\ probe.definitions = ExtraParameterDefinitions
    /\ probe.input \in {"g", "g(1)", "g(2)", "g(0)", "g(s)"}

\* What the references to B in g's body produce when B holds `binding`: the
\* fragment itself for an instruction, h's body for a number above 0.
FromBinding(binding) ==
    IF binding.kind = "string" THEN binding.str
    ELSE IF binding.num > 0 THEN "l" ELSE ""

\* C19 as stated: in a call with fewer arguments than parameters, a reference
\* in the callee body to a parameter without a matching argument contributes
\* nothing and evaluates to 0, whatever the caller's context binds.
C19_ExtraParametersUnbound ==
    IsShortCallOfG => probe.result.err = "none" /\ probe.result.out = ""

\* C19, amended: a parameter without a matching argument gets no binding of
\* its own; a reference to it in the callee body sees the caller's binding
\* of that name when there is one, and contributes nothing and evaluates to
\* 0 when there is none.
C19_ExtraParametersInherit ==
    IsShortCallOfG =>
        /\ probe.result.err = "none"
        /\ probe.result.out =
              IF probe.input = "g(0)" \/ "B" \notin DOMAIN probe.argValues THEN ""
              ELSE FromBinding(probe.argValues["B"])

C19_Witness ==
    /\ IsShortCallOfG
    /\ probe.input = "g(1)"
    /\ "B" \in DOMAIN probe.argValues
    /\ probe.argValues["B"] = StrValue("lr")
    /\ probe.result.out = "lr"

\* C20: after a call returns the caller's bindings are what they were before
\* it, and a later sibling call in the same body expands to the string it
\* produces without the earlier call.
C20_BindingsStayInCall ==
    ( /\ probe.fn = "expandInstructions"
      /\ probe.done
      /\ probe.definitions = SiblingDefinitions
      /\ probe.together.err = "none" )
    => /\ probe.result.argValues = probe.argValues
       /\ probe.together.argValues = probe.argValues
       /\ probe.together.out = probe.result.out \o probe.siblingAlone.out

C20_Witness ==
    /\ probe.fn = "expandInstructions"
    /\ probe.done
    /\ probe.input = "f(lr)"
    /\ probe.sibling = "g"
    /\ probe.argValues = EmptyMap
    /\ probe.result.out = "slr"
    /\ probe.siblingAlone.out = ""
    /\ probe.together.out = "slr"

RECURSIVE SoloLoop(_, _, _, _, _, _)
\* The snapshots a generator running alone yields from index k on, after
\* those of `yielded`.
SoloLoop(state, commands, k, steps, cap, yielded) ==
    LET n == NextCommandIndex(commands, k)
    IN  IF k >= Len(commands) \/ LoopStops(state, steps, cap) \/ n >= Len(commands)
        THEN yielded
        ELSE LET after == executeOneCommand(CommandAt(commands, n), state)
             IN  SoloLoop(after, commands, n + 1, steps + 1, cap,
                          Append(yielded, JsonCopy(after)))

\* The snapshots of a run of `program` alone on an initial state.
SoloSnapshots(program, initial, cap) ==
    LET x == ExpandProgram(program)
    IN  IF x.err # "none" THEN <<ErrorState(initial, x.err)>>
        ELSE SoloLoop(JsonCopy(initial), x.out, 0, 0, cap, <<JsonCopy(initial)>>)

\* C15: each of the runs started on one initialState object, advanced in any
\* interleaving, has yielded a prefix of the snapshots it yields when run
\* alone, all of them once it has run to its end; and the initialState
\* object still holds what it held before the runs.
C15_RunsDoNotInterfere ==
    /\ heap[0] = initializeGame(levelData)
    /\ \A r \in RunIds :
          LET solo == SoloSnapshots(runs[r].commandString, initializeGame(levelData),
                                    runs[r].maxSteps)
              got  == runs[r].delivered
          IN  /\ Len(got) <= Len(solo)
              /\ \A k \in 1..Len(got) : got[k].at = solo[k]
              /\ (runs[r].pc = "done" /\ ~runs[r].abandoned) => Len(got) = Len(solo)

C15_Witness ==
    /\ runs[1].abandoned
    /\ runs[1].overlapped
    /\ Len(runs[1].delivered) = 3
    /\ runs[1].delivered[3].at.pointsCollected = 1
    /\ runs[2].pc = "done"
    /\ ~runs[2].abandoned
    /\ runs[2].overlapped
    /\ runs[2].commandString = "lsrs"
    /\ Len(runs[2].delivered) = 5
    /\ runs[2].delivered[5].at.pointsCollected = 2
    /\ heap[0].pointsCollected = 0

\* C21: the expansion of every program either returns a string over
\* {s, l, r} or raises the depth-exceeded error: it never recurses without
\* the tracked depth increasing (which ends in the engine's stack error).
C21_ExpansionEndsByDepth ==
    pc # "start" =>
        /\ expansion.err \in {"none", "depth"}
        /\ expansion.err = "none" => AllIn(expansion.out, {"s", "l", "r"})

\* C24: a call that contributes nothing because its numeric argument is <= 0
\* never raises the depth-exceeded error: `f(A):sf(A-1)` called as
\* f(MaxDepth + 1) expands to MaxDepth + 1 copies of `s` (and likewise for
\* the body `sssl`).
C24_GuardedCallNeverThrows ==
    \A body \in {"s", "sssl"} :
        (commandString = CountdownProgram(body, MaxDepth + 1) /\ pc # "start")
        => /\ expansion.err = "none"
           /\ expansion.out = Repeat(body, MaxDepth + 1)

\* The direction one step along the cycle up, right, down, left.
AlongCycle(d) ==
    CASE d = "up" -> "right" [] d = "right" -> "down"
      [] d = "down" -> "left" [] d = "left" -> "up"

\* The direction one step against the cycle.
AgainstCycle(d) ==
    CASE d = "up" -> "left" [] d = "left" -> "down"
      [] d = "down" -> "right" [] d = "right" -> "up"

\* C22: an `l` (an `r`) changes only the robot's direction, by one step
\* against (along) the cycle up, right, down, left; and for every direction d,
\* turnLeft(turnRight(d)) = turnRight(turnLeft(d)) = d and four turnLeft
\* return d.
C22_TurnsOnlyTurn ==
    [][ /\ (StepApplies /\ CharAt(expandedCommands, i) = "l")
           => currentState' = [currentState EXCEPT
                                  !.robot.direction = AgainstCycle(@)]
        /\ (StepApplies /\ CharAt(expandedCommands, i) = "r")
           => currentState' = [currentState EXCEPT
                                  !.robot.direction = AlongCycle(@)]
        /\ LET d == currentState.robot.direction
           IN  /\ turnLeft(turnRight(d)) = d
               /\ turnRight(turnLeft(d)) = d
               /\ turnLeft(turnLeft(turnLeft(turnLeft(d)))) = d ]_vars

C22_Witness ==
    /\ commandString = "llll"
    /\ pc = "loop"
    /\ Len(delivered) = 5
    /\ delivered[2].at.robot.direction = "left"
    /\ delivered[3].at.robot.direction = "down"
    /\ delivered[4].at.robot.direction = "right"
    /\ LastDelivered = delivered[1].at

\* The value the object yielded as snapshot k holds now: the first snapshot
\* is the object currentState itself, the others are objects of their own.
ObjectNow(k) ==
    IF delivered[k].ref = "currentState" THEN currentState ELSE delivered[k].at

\* C25: every snapshot object yielded so far, the first one included, still
\* has the field values it had when it was yielded.
C25_YieldedSnapshotsFrozen ==
    \A k \in 1..Len(delivered) : ObjectNow(k) = delivered[k].at

InsideGrid(pos) ==
    /\ 0 <= pos.x /\ pos.x < GRID_SIZE
    /\ 0 <= pos.y /\ pos.y < GRID_SIZE

\* C26: in every state of a run started from initializeGame(levelText), the
\* robot position is inside the grid.
C26_RobotInsideGrid ==
    pc # "start" =>
        /\ InsideGrid(initialState.robot.position)
        /\ \A k \in 1..Len(delivered) : InsideGrid(delivered[k].at.robot.position)

\* C27: in every state of a run started from initializeGame, pointsCollected
\* plus the number of point cells still in the grid equals totalPoints.
C27_PointsConserved ==
    /\ initialState.pointsCollected + CountRows(initialState.grid, "o")
          = initialState.totalPoints
    /\ \A k \in 1..Len(delivered) :
          delivered[k].at.pointsCollected + CountRows(delivered[k].at.grid, "o")
             = delivered[k].at.totalPoints
    /\ pc # "start" =>
          currentState.pointsCollected + CountRows(currentState.grid, "o")
             = currentState.totalPoints

C27_Witness ==
    /\ pc = "loop"
    /\ LastDelivered.totalPoints = 3
    /\ LastDelivered.pointsCollected = 2
    /\ CountRows(LastDelivered.grid, "o") = 1
    /\ CountRows(LastDelivered.grid, "*") = 1

\* C23: for every level text parseLevel returns a grid of exactly GRID_SIZE
\* rows of exactly GRID_SIZE cells, none of them the robot start marker, and
\* parsing the same text again returns the same grid and robot start.
C23_GridIsSquare ==
    (probe.fn = "parseLevel" /\ probe.done)
    => /\ Len(probe.parsed.grid) = GRID_SIZE
       /\ \A y \in 1..Len(probe.parsed.grid) :
             /\ Len(probe.parsed.grid[y]) = GRID_SIZE
             /\ ~Includes(probe.parsed.grid[y], "u")
       /\ probe.parsedAgain.grid = probe.parsed.grid
       /\ probe.parsedAgain.robotStart = probe.parsed.robotStart

C23_Witness ==
    /\ probe.fn = "parseLevel"
    /\ probe.done
    /\ probe.input = Repeat("o\n", GRID_SIZE + 1) \o "u"
    /\ Len(probe.parsed.grid) = GRID_SIZE
    /\ probe.parsed.grid[GRID_SIZE] = "o" \o Repeat(".", GRID_SIZE - 1)
    /\ probe.parsed.robotStart = [x |-> 0, y |-> GRID_SIZE + 1]

\* C29: for a flat command list and the default step cap, the states list of
\* executeCommands is the snapshot sequence of the step-wise run and its
\* finalState is the last snapshot.
C29_EnginesAgree ==
    (probe.fn = "executeCommands" /\ maxSteps = DefaultMaxSteps)
    => /\ probe.legacy.states = [k \in 1..Len(delivered) |-> delivered[k].at]
       /\ probe.legacy.finalState = LastDelivered

\* What the page displays is the state after some prefix of the expanded
\* instructions (the reset state or the error snapshot when the expansion
\* raised an error).
DisplayConsistent ==
    LET displayed == ValueNow(ui.gameState)
        x         == ui.expansion
    IN  IF x.err # "none"
        THEN displayed \in {heap[0], ErrorState(heap[0], x.err)}
        ELSE \E k \in 0..Len(x.out) :
                displayed = ApplyPrefix(JsonCopy(heap[0]), x.out, k)

\* C28: once Stop has been requested during a run, setGameState is not
\* called again with a state of the generator, the run ends with isPlaying
\* reset to false, and the displayed state is the state after a prefix of
\* the instruction stream.
C28_StopEndsRun ==
    /\ [](ui.stopRequested => ui.shown = ui.stopAt)
    /\ [](ui.stopRequested => DisplayConsistent)
    /\ (ui.stopRequested ~> (ui.pc = "ended" /\ ~ui.isPlaying))

C28_Witness ==
    /\ ui.stopRequested
    /\ ui.pc = "ended"
    /\ ~ui.isPlaying
    /\ commandString = "lsrsllssls"
    /\ runs[1].abandoned
    /\ ui.shown = 3
    /\ Len(runs[1].delivered) = 4
    /\ ValueNow(ui.gameState) = runs[1].delivered[3].at

====
